---- MODULE Spec2Model ----
(***************************************************************************)
(* Compatibility scoring engine of the API package: the pairwise scorer    *)
(* scoreCompatibility, the popularity-adjusted rank score, the             *)
(* single-target query GET /compatibility and the full-registry recompute  *)
(* POST /compatibility/recompute-all, over a Firestore-like store of tool  *)
(* documents, per-tool compatibility sub-records and per-tool summaries.   *)
(*                                                                         *)
(* Numbers.  Scores and rank scores are JavaScript doubles rounded with    *)
(* toFixed(3); they are kept here as integers in thousandths (525 is       *)
(* 0.525).  Popularity is kept in tenths (5 is 0.5).  Request limits are   *)
(* kept in halves (5 is 2.5) so that a fractional limit is representable.  *)
(***************************************************************************)
EXTENDS Integers, Sequences, FiniteSets, TLC

Min(x, y) == IF x <= y THEN x ELSE y
Max(x, y) == IF x >= y THEN x ELSE y
Abs(x) == IF x < 0 THEN 0 - x ELSE x

(***************************************************************************)
(* Similarity primitives                                                   *)
(***************************************************************************)

\* String.prototype.toLowerCase on the labels used by the model; every label
\* that is not listed is already lower case.
LowerMap ==
  ("GitHub" :> "github") @@ ("Vercel" :> "vercel") @@ ("Netlify" :> "netlify")
  @@ ("IDE" :> "ide") @@ ("Git" :> "git")
  @@ ("VS Code extensions" :> "vs code extensions")
  @@ ("Vibe Coding Tool" :> "vibe coding tool") @@ ("Cloud IDE" :> "cloud ide")
  @@ ("Agentic Tool" :> "agentic tool") @@ ("Code Editor" :> "code editor")
  @@ ("No-Code Platform" :> "no-code platform")
  @@ ("Limited offline access" :> "limited offline access")
  @@ ("Resource constraints" :> "resource constraints")
  @@ ("Resource intensive" :> "resource intensive")
  @@ ("Requires internet" :> "requires internet")
  @@ ("Limited customization" :> "limited customization")
  @@ ("Vendor lock-in" :> "vendor lock-in")
  @@ ("AI" :> "ai") @@ ("GITHUB" :> "github") @@ ("VERCEL" :> "vercel")
  @@ ("NETLIFY" :> "netlify") @@ ("React" :> "react") @@ ("TS" :> "ts")
  @@ ("Py" :> "py") @@ ("X" :> "x") @@ ("Y" :> "y")
  @@ ("GitHub Actions" :> "github actions")
  @@ ("Code Generation" :> "code generation") @@ ("Debugging" :> "debugging")
  @@ ("Cursor" :> "cursor")

toLowerCase(s) == IF s \in DOMAIN LowerMap THEN LowerMap[s] ELSE s

\* List entries are strings; the two JavaScript values null and undefined,
\* which a stored list may also hold, are written as the reserved entries
\* below.
NullEntry == "<null>"
UndefinedEntry == "<undefined>"

\* String(s): a string is itself, null is "null", undefined is "undefined".
StringOf(s) ==
  IF s = NullEntry THEN "null"
  ELSE IF s = UndefinedEntry THEN "undefined"
  ELSE s

\* `list || []`: a field that the descriptor does not carry reads as the
\* empty list.
OrEmpty(t, f) == IF f \in DOMAIN t THEN t[f] ELSE <<>>

\* Variant: the entries compared as written.
normalizeListCaseSensitive(list) == {list[i] : i \in DOMAIN list} \ {""}

\* new Set(list.map(s => String(s).toLowerCase()).filter(Boolean)):
\* lower-case every entry, drop the empty string, collapse duplicates.
normalizeList(list) ==
  {toLowerCase(StringOf(list[i])) : i \in DOMAIN list} \ {""}

\* A ratio inter / uni kept exact as numerator and denominator.
Zero == [num |-> 0, den |-> 1]

\* Variant: the ratio taken over the first set instead of the union.
jaccardAsym(setA, setB) ==
  [num |-> Cardinality(setA \cap setB),
   den |-> IF Cardinality(setA) = 0 THEN 1 ELSE Cardinality(setA)]

jaccard(setA, setB) ==
  [num |-> Cardinality(setA \cap setB),
   den |-> IF Cardinality(setA \cup setB) = 0 THEN 1
           ELSE Cardinality(setA \cup setB)]

\* Number(x.toFixed(3)) of the exact value n / d expressed in thousandths:
\* the nearest integer, a half rounding away from zero.
toFixed3(n, d) ==
  LET q == (2 * Abs(n) + d) \div (2 * d)
  IN  IF n < 0 THEN 0 - q ELSE q

(***************************************************************************)
(* Pairwise scorer                                                         *)
(***************************************************************************)

\* Weights of the combination, in thousandths.
WeightIntegration == 550
WeightCategory == 200
WeightVerified == 100
WeightFramework == 100
WeightLanguage == 50
WeightLimitation == 200
CategoryBoost == 50
ScoreCeiling == 1000

\* `a.languages || a.supported_languages`: an array, even an empty one, is
\* truthy, so the fallback is taken only when languages is missing.
LanguageList(t) ==
  IF "languages" \in DOMAIN t THEN t["languages"]
  ELSE OrEmpty(t, "supported_languages")

\* Variant: two empty sides count as identical.
BothOrOne(setA, setB) ==
  IF setA = setB THEN [num |-> 1, den |-> 1] ELSE jaccard(setA, setB)

\* The conditional terms: the ratio when both sides are non-empty, else 0.
BothOrZero(setA, setB) ==
  IF setA # {} /\ setB # {} THEN jaccard(setA, setB) ELSE Zero

\* Variant: the limitation term added instead of subtracted.
WeightedSumPenaltyAdded(integrationScore, categoryScore, verifiedScore, frameworkScore, languageScore, limitationPenalty, categoryBoost) ==
  LET D == integrationScore.den * categoryScore.den * verifiedScore.den
             * frameworkScore.den * languageScore.den * limitationPenalty.den
  IN  [num |-> WeightIntegration * integrationScore.num * (D \div integrationScore.den)
               + WeightCategory * categoryScore.num * (D \div categoryScore.den)
               + WeightVerified * verifiedScore.num * (D \div verifiedScore.den)
               + WeightFramework * frameworkScore.num * (D \div frameworkScore.den)
               + WeightLanguage * languageScore.num * (D \div languageScore.den)
               + WeightLimitation * limitationPenalty.num * (D \div limitationPenalty.den)
               + categoryBoost * D,
       den |-> D]

\* The weighted combination of the six ratios and the boost, kept exact over
\* the common denominator of the ratios.
WeightedSum(integrationScore, categoryScore, verifiedScore, frameworkScore, languageScore, limitationPenalty, categoryBoost) ==
  LET D == integrationScore.den * categoryScore.den * verifiedScore.den
             * frameworkScore.den * languageScore.den * limitationPenalty.den
  IN  [num |-> WeightIntegration * integrationScore.num * (D \div integrationScore.den)
               + WeightCategory * categoryScore.num * (D \div categoryScore.den)
               + WeightVerified * verifiedScore.num * (D \div verifiedScore.den)
               + WeightFramework * frameworkScore.num * (D \div frameworkScore.den)
               + WeightLanguage * languageScore.num * (D \div languageScore.den)
               - WeightLimitation * limitationPenalty.num * (D \div limitationPenalty.den)
               + categoryBoost * D,
       den |-> D]

\* Variant: no boost for a shared category.
scoreOfSetsNoBoost(catsA, catsB, intsA, intsB, vintsA, vintsB, frA, frB, langA, langB, limA, limB) ==
  WeightedSum(jaccard(intsA, intsB), jaccard(catsA, catsB),
              BothOrZero(vintsA, vintsB), BothOrZero(frA, frB),
              BothOrZero(langA, langB), BothOrZero(limA, limB), 0)

\* The score of the twelve normalized sets before the clamp.
scoreOfSets(catsA, catsB, intsA, intsB, vintsA, vintsB, frA, frB, langA, langB, limA, limB) ==
  WeightedSum(jaccard(intsA, intsB), jaccard(catsA, catsB),
              BothOrZero(vintsA, vintsB), BothOrZero(frA, frB),
              BothOrZero(langA, langB), BothOrZero(limA, limB),
              IF catsA \cap catsB # {} THEN CategoryBoost ELSE 0)

scoreUnclamped(a, b) ==
  scoreOfSets(normalizeList(OrEmpty(a, "category")),
              normalizeList(OrEmpty(b, "category")),
              normalizeList(OrEmpty(a, "integrations")),
              normalizeList(OrEmpty(b, "integrations")),
              normalizeList(OrEmpty(a, "verified_integrations")),
              normalizeList(OrEmpty(b, "verified_integrations")),
              normalizeList(OrEmpty(a, "frameworks")),
              normalizeList(OrEmpty(b, "frameworks")),
              normalizeList(LanguageList(a)),
              normalizeList(LanguageList(b)),
              normalizeList(OrEmpty(a, "known_limitations")),
              normalizeList(OrEmpty(b, "known_limitations")))

\* Variant: the result truncated to three decimals instead of rounded.
ClampAndTruncate(s) ==
  (IF s.num > ScoreCeiling * s.den THEN ScoreCeiling * s.den ELSE s.num) \div s.den

\* if (score > 1) score = 1; return Number(score.toFixed(3)).  There is no cut
\* at 0.
ClampAndRound(s) ==
  toFixed3(IF s.num > ScoreCeiling * s.den THEN ScoreCeiling * s.den ELSE s.num,
           s.den)

\* The weighted sum is a finite number for every input (each ratio has a
\* non-zero denominator), so the NaN guard never fires.
scoreCompatibility(a, b) == ClampAndRound(scoreUnclamped(a, b))

(***************************************************************************)
(* Popularity-adjusted ranker                                              *)
(***************************************************************************)

\* Number(t.popularity_score ?? 0) || 0, in tenths.
Popularity(t) ==
  IF "popularity_score" \in DOMAIN t THEN t["popularity_score"] ELSE 0

\* The product score * (1 + avgPop * 0.2) is evaluated in IEEE-754 doubles.
\* Where its exact value lies half-way between two thousandths the double is
\* not the exact value, and toFixed(3) rounds the double.  For popularity
\* values 0, 0.5 and 1 the table lists, per popularity sum in tenths, the
\* magnitudes of score (thousandths) whose double product falls below the
\* half-way point; every other half-way case falls on or above it.
TieBelow ==
  (5 :> {290, 350, 410, 470, 490, 570, 590, 610, 690, 710, 730, 830, 850,
         870, 950, 970})
  @@ (10 :> {475, 485, 495, 565, 575, 585, 595, 605, 615, 695, 705, 715, 725,
             735, 815, 825, 835, 845, 955})
  @@ (15 :> {10, 30, 50, 90, 130, 150, 190, 210, 250, 270, 290, 310, 350, 370,
             390, 410, 430, 450, 470, 510, 530, 550, 570, 590, 610, 630, 650,
             670, 690, 710, 730, 750, 770, 790, 810, 830, 850, 870, 890, 910,
             930, 950, 970, 990})

\* toFixed(3) of the product whose exact value is n / 100 thousandths, for the
\* magnitude m of the score and the popularity sum ps.
RoundProduct(n, m, ps) ==
  IF n % 100 = 50 /\ ps \in DOMAIN TieBelow /\ m \in TieBelow[ps]
  THEN n \div 100
  ELSE toFixed3(n, 100)

\* Number((score * (1 + ((popA + popB) / 2) * 0.2)).toFixed(3)): with the
\* popularities in tenths the exact product is score * (100 + popA + popB) / 100.
rankScoreOf(score, popA, popB) ==
  IF score < 0
  THEN 0 - RoundProduct((0 - score) * (100 + popA + popB), 0 - score, popA + popB)
  ELSE RoundProduct(score * (100 + popA + popB), score, popA + popB)

(***************************************************************************)
(* Request limits, in halves                                               *)
(***************************************************************************)
MinLimit == 1
DefaultQueryLimit == 5
MaxQueryLimit == 20
DefaultRecomputeLimit == 10
MaxRecomputeLimit == 50
BatchCeiling == 450
Threshold == 700

NaN == [k |-> "nan"]
Num(halves) == [k |-> "num", v |-> halves]
AbsentParam == [k |-> "absent"]

\* Math.max(1, Math.min(Number(req.query.limit ?? dflt), maxv)): a missing
\* parameter takes the default, NaN passes through both min and max.
ClampLimit(raw, dflt, maxv) ==
  LET x == IF raw.k = "absent" THEN Num(2 * dflt) ELSE raw
  IN  IF x.k = "nan" THEN NaN
      ELSE Num(Max(2 * MinLimit, Min(x.v, 2 * maxv)))

QueryLimit(raw) == ClampLimit(raw, DefaultQueryLimit, MaxQueryLimit)
RecomputeLimit(raw) == ClampLimit(raw, DefaultRecomputeLimit, MaxRecomputeLimit)

\* Array.prototype.slice(0, limit): the end index is truncated to an integer,
\* NaN reads as 0.
SliceEnd(limit) == IF limit.k = "nan" THEN 0 ELSE limit.v \div 2

Slice(seq, limit) == SubSeq(seq, 1, Min(Len(seq), SliceEnd(limit)))

(***************************************************************************)
(* Scoring one subject against the registry snapshot                       *)
(***************************************************************************)

\* tools.filter(t => t.tool_id !== baseId)
Others(snap, baseId) == SelectSeq(snap, LAMBDA t : t["tool_id"] # baseId)

\* Variant: the rank score stored in place of the score.
EntryOfRankAsScore(base, t, score) ==
  [tool_id |-> t["tool_id"], name |-> t["name"],
   score |-> rankScoreOf(score, Popularity(base), Popularity(t)),
   rankScore |-> rankScoreOf(score, Popularity(base), Popularity(t))]

\* One scored entry: the peer, its base score and its rank score.
EntryOf(base, t, score) ==
  [tool_id |-> t["tool_id"], name |-> t["name"], score |-> score,
   rankScore |-> rankScoreOf(score, Popularity(base), Popularity(t))]

ScoredEntry(base, t) == EntryOf(base, t, scoreCompatibility(base, t))

RECURSIVE MapScored(_, _)
MapScored(base, seq) ==
  IF seq = <<>> THEN <<>>
  ELSE <<ScoredEntry(base, Head(seq))>> \o MapScored(base, Tail(seq))

InsertAt(s, x, k) == SubSeq(s, 1, k) \o <<x>> \o SubSeq(s, k + 1, Len(s))

\* Insertion of x into a list already sorted by descending rankScore.  The
\* sort is stable: x goes behind every entry whose rankScore is not smaller.
\* Variant: x goes in front of the entries of equal rankScore.
InsertUnstable(s, x) ==
  InsertAt(s, x, Cardinality({i \in DOMAIN s : s[i].rankScore > x.rankScore}))

\* Variant: ascending order.
InsertAscending(s, x) ==
  InsertAt(s, x, Cardinality({i \in DOMAIN s : s[i].rankScore <= x.rankScore}))

InsertByRank(s, x) ==
  InsertAt(s, x, Cardinality({i \in DOMAIN s : s[i].rankScore >= x.rankScore}))

\* .sort((a, b) => b.rankScore - a.rankScore)
RECURSIVE SortByRank(_)
SortByRank(seq) ==
  IF seq = <<>> THEN <<>>
  ELSE InsertByRank(SortByRank(SubSeq(seq, 1, Len(seq) - 1)), seq[Len(seq)])

\* filter, map, sort, slice: the kept matches of base.
Scored(snap, base, limit) ==
  Slice(SortByRank(MapScored(base, Others(snap, base["tool_id"]))), limit)

FirstIn(hits) == CHOOSE i \in hits : \A j \in hits : i <= j

\* Variant: an unknown id falls back to the first tool.
FindToolOrFirst(snap, toolId) ==
  IF \A i \in DOMAIN snap : snap[i]["tool_id"] # toolId
  THEN (IF snap = <<>> THEN 0 ELSE 1)
  ELSE FirstIn({i \in DOMAIN snap : snap[i]["tool_id"] = toolId})

\* tools.find(t => t.tool_id === toolId): the index of the first match, 0 if none.
FindTool(snap, toolId) ==
  IF \A i \in DOMAIN snap : snap[i]["tool_id"] # toolId THEN 0
  ELSE FirstIn({i \in DOMAIN snap : snap[i]["tool_id"] = toolId})

(***************************************************************************)
(* State                                                                   *)
(***************************************************************************)
VARIABLES
  sa, sb,        \* the two descriptors handed to the scorer
  sout,          \* the scorer's result in thousandths, "none" before the call
  spc,           \* position of the scorer harness
  nlist,         \* the list handed to normalizeList
  nset,          \* the set normalizeList returned, "none" before the call
  npc,           \* position of the normalizeList harness
  firestoreOn,   \* whether the Firestore client was initialised
  tools,         \* collection 'tools': document id -> tool descriptor
  subrec,        \* tools/{subject}/compatibility/{peer}: <<subject, peer>> -> record
  summary,       \* compatibility_summary of tools/{id}: id -> record
  now,           \* the clock read by new Date(): the arrival time of the
                 \* latest request
  req,           \* per handler instance: the locals of the request in flight
  served,        \* number of requests started so far
  lastRun,       \* the last recompute that completed, while storage is as it left it
  bN,            \* batch walk: number of tools in the snapshot
  bLimit,        \* batch walk: effective limit
  bIdx,          \* batch walk: index of the base tool
  bKept,         \* batch walk: number of kept pairs of the base tool
  bK,            \* batch walk: kept pairs already put into a batch
  bOps,          \* batch walk: the counter ops
  bBatch,        \* batch walk: operations held by the batch object
  bFlush,        \* batch walk: size of the latest commit, 0 before the first
  bTotal,        \* batch walk: the counter totalWrites
  bpc            \* batch walk: position

vars == <<sa, sb, sout, spc, nlist, nset, npc, firestoreOn, tools, subrec, summary, now, req,
          served, lastRun, bN, bLimit, bIdx, bKept, bK, bOps, bBatch, bFlush,
          bTotal, bpc>>

batchVars == <<bN, bLimit, bIdx, bKept, bK, bOps, bBatch, bFlush, bTotal, bpc>>

scoreVars == <<sa, sb, sout, spc>>
normVars == <<nlist, nset, npc>>
storeVars == <<firestoreOn, tools, subrec, summary, now, req, served, lastRun>>

(***************************************************************************)
(* Registry contents                                                       *)
(***************************************************************************)
NoFields == [x \in {} |-> <<>>]

\* The in-memory registry served when Firestore is not available.
mockTools ==
  << [tool_id |-> "replit", name |-> "Replit",
      category |-> <<"Vibe Coding Tool", "Cloud IDE">>,
      known_limitations |-> <<"Limited offline access", "Resource constraints">>,
      integrations |-> <<"GitHub", "Vercel", "Netlify">>],
     [tool_id |-> "cursor", name |-> "Cursor IDE",
      category |-> <<"Agentic Tool", "Code Editor">>,
      known_limitations |-> <<"Resource intensive", "Requires internet">>,
      integrations |-> <<"Git", "GitHub", "VS Code extensions">>],
     [tool_id |-> "bolt", name |-> "Bolt.new",
      category |-> <<"Vibe Coding Tool", "No-Code Platform">>,
      known_limitations |-> <<"Limited customization", "Vendor lock-in">>,
      integrations |-> <<"Vercel", "GitHub">>] >>

\* Tool documents the ingestion pipeline may have stored before the service
\* starts.
StoredDocs ==
  { [tool_id |-> "bolt", name |-> "Bolt.new", category |-> <<"IDE">>,
     integrations |-> <<"GitHub", "Vercel">>, popularity_score |-> 10],
    [tool_id |-> "cursor", name |-> "Cursor IDE", category |-> <<"ide">>,
     integrations |-> <<"github", "vercel">>, popularity_score |-> 10],
    [tool_id |-> "replit", name |-> "Replit", category |-> <<"ide">>,
     integrations |-> <<"GitHub", "Vercel", "Netlify">>,
     known_limitations |-> <<"x">>, popularity_score |-> 5] }

\* Profiles an administrator may post to /v1/tools (the fields the profile
\* schema lets through).
PostedProfiles ==
  { [tool_id |-> "cursor", name |-> "Cursor", category |-> <<"ai">>,
     integrations |-> <<>>, known_limitations |-> <<"x">>] }

\* Document ids in the order in which collection('tools').get() returns them.
IdOrder == <<"bolt", "cursor", "replit">>

Registries ==
  {[d \in {x["tool_id"] : x \in S} |-> CHOOSE x \in S : x["tool_id"] = d] :
     S \in SUBSET StoredDocs}

\* snapshot.docs.map(d => d.data())
Snapshot(reg) ==
  LET ids == SelectSeq(IdOrder, LAMBDA i : i \in DOMAIN reg)
  IN  [k \in 1..Len(ids) |-> reg[ids[k]]]

(***************************************************************************)
(* Storage writes                                                          *)
(***************************************************************************)

\* The document stored under key, the empty object when there is none.
SubAt(store, key) == IF key \in DOMAIN store THEN store[key] ELSE NoFields

\* ref.set(data, { merge: true }): the written fields replace the stored
\* ones, the other stored fields stay.
MergeSet(store, key, data) ==
  IF key \in DOMAIN store THEN (key :> (data @@ store[key])) @@ store
  ELSE (key :> data) @@ store

\* batch.commit(): the operations of the batch are applied in order, all or
\* none.
RECURSIVE ApplyBatch(_, _)
ApplyBatch(store, batch) ==
  IF batch = <<>> THEN store
  ELSE ApplyBatch(MergeSet(store, Head(batch).key, Head(batch).data), Tail(batch))

\* Variant: the commit replaces the sub-records of the subject.
ApplyPruning(store, batch) ==
  ApplyBatch([k \in {x \in DOMAIN store :
                       \A i \in DOMAIN batch : x[1] # batch[i].key[1]}
                |-> store[k]],
             batch)

CommitQueryBatch(store, batch) == ApplyBatch(store, batch)

BatchKeys(batch) == {batch[i].key : i \in DOMAIN batch}

\* Variant: the single-target path persists the ordering key alone.
QueryOpRankOnly(toolId, m, clock) ==
  [key |-> <<toolId, m.tool_id>>,
   data |-> [rank_score |-> m.rankScore, updated_at |-> clock]]

\* The sub-record written by the single-target path.
QueryOp(toolId, m, clock) ==
  [key |-> <<toolId, m.tool_id>>,
   data |-> [score |-> m.score, rank_score |-> m.rankScore, updated_at |-> clock]]

\* The sub-record written by the recompute path.
RecomputeOp(baseId, m, clock) ==
  [key |-> <<baseId, m.tool_id>>,
   data |-> [score |-> m.score, rank_score |-> m.rankScore, updated_at |-> clock,
             name |-> m.name]]

\* scored[0]?.rankScore ?? 0
TopRank(scored) == IF scored = <<>> THEN 0 ELSE scored[1].rankScore

\* Variant: the base score compared with the threshold.
CountAboveByScore(scored) ==
  Cardinality({i \in DOMAIN scored : scored[i].score >= Threshold})

\* scored.filter(x => x.rankScore >= 0.7).length
CountAbove(scored) ==
  Cardinality({i \in DOMAIN scored : scored[i].rankScore >= Threshold})

\* Variant: the count added to the stored count.
SummaryIncrement(old, scored, clock) ==
  [top_rank_score |-> TopRank(scored),
   count_above_0_7 |->
     CountAbove(scored)
     + (IF "count_above_0_7" \in DOMAIN old THEN old["count_above_0_7"] ELSE 0),
   last_computed_at |-> clock]

\* The compatibility_summary object set on the tool document; old is the
\* summary stored before.
SummaryOf(old, scored, clock) ==
  [top_rank_score |-> TopRank(scored), count_above_0_7 |-> CountAbove(scored),
   last_computed_at |-> clock]

\* Storage without its timestamps.
StripSub(s) ==
  [k \in DOMAIN s |-> [f \in (DOMAIN s[k]) \ {"updated_at"} |-> s[k][f]]]
StripSum(s) ==
  [k \in DOMAIN s |-> [f \in (DOMAIN s[k]) \ {"last_computed_at"} |-> s[k][f]]]

(***************************************************************************)
(* Handler instances                                                       *)
(***************************************************************************)
Procs == {1, 2}

MaxRequests == 2

NoRun == [valid |-> FALSE]

IdleReq ==
  [pc |-> "idle", kind |-> "none", toolId |-> "", limit |-> NaN,
   persist |-> FALSE, snap |-> <<>>, idx |-> 0, scored |-> <<>>, kpos |-> 0,
   ops |-> 0, batch |-> <<>>, mid |-> FALSE, totalWrites |-> 0,
   resp |-> [status |-> 0],
   \* history of the request, read by the properties only
   wrote |-> {}, preSub |-> NoFields, preSum |-> NoFields,
   failed |-> "none", prev |-> NoRun,
   \* the client's request to stop, and the tool index it arrived at
   cancelled |-> FALSE, cancelAt |-> 0,
   \* the limit parameter as it arrived
   rawLimit |-> AbsentParam,
   \* the tools taken as subject so far, and the operations of the batches
   \* committed so far
   subjects |-> <<>>, committed |-> 0]

CanStart(p) == req[p].pc \in {"idle", "done"} /\ served < MaxRequests

Respond(r, resp) == [r EXCEPT !.pc = "done", !.resp = resp]

\* Variant: a failed commit is swallowed and the loop goes on.
OnFailureContinue(r, phase) ==
  IF phase = "commit" THEN [r EXCEPT !.pc = "summary", !.failed = phase]
  ELSE [Respond(r, [status |-> 500]) EXCEPT !.failed = phase]

\* catch (e) { return res.status(500)... }: the handler stops at the failed
\* await.
OnFailure(r, phase) == [Respond(r, [status |-> 500]) EXCEPT !.failed = phase]

RawLimits == {AbsentParam, NaN, Num(0), Num(3), Num(200)}
ToolIdParams == {"", "bolt", "cursor", "replit", "ghost"}

(***************************************************************************)
(* GET /v1/compatibility                                                   *)
(***************************************************************************)

QueryOk(r) ==
  Respond(r, [status |-> 200, tool_id |-> r.toolId, matches |-> r.scored,
              count |-> Len(r.scored)])

QueryBatch(r, clock) ==
  [i \in 1..Len(r.scored) |-> QueryOp(r.toolId, r.scored[i], clock)]

\* After base was found: persist (the batch is built, the commit awaited) or
\* answer.
QueryFound(r, persistNow, clock) ==
  IF persistNow THEN [r EXCEPT !.pc = "commit", !.batch = QueryBatch(r, clock)]
  ELSE QueryOk(r)

QueryScore(r) ==
  [r EXCEPT !.scored = Scored(r.snap, r.snap[r.idx], r.limit)]

QueryLookup(r, persistNow, clock) ==
  IF r.idx = 0 THEN Respond(r, [status |-> 404])
  ELSE QueryFound(QueryScore(r), persistNow, clock)

\* From the registry snapshot to the first await or the response.
QueryCompute(r, snap, persistNow, clock) ==
  QueryLookup([r EXCEPT !.snap = snap, !.idx = FindTool(snap, r.toolId)],
              persistNow, clock)

QueryRequest(toolId, rawLimit, persist) ==
  [IdleReq EXCEPT !.kind = "query", !.toolId = toolId,
                  !.limit = QueryLimit(rawLimit), !.rawLimit = rawLimit,
                  !.persist = persist,
                  !.preSub = subrec, !.preSum = summary]

QueryStart(p, toolId, rawLimit, persist) ==
  /\ CanStart(p)
  /\ served' = served + 1
  /\ req' = [req EXCEPT ![p] =
               IF toolId = ""
               THEN Respond(QueryRequest(toolId, rawLimit, persist), [status |-> 400])
               ELSE IF firestoreOn
               THEN [QueryRequest(toolId, rawLimit, persist) EXCEPT !.pc = "read"]
               ELSE QueryCompute(QueryRequest(toolId, rawLimit, persist),
                                 mockTools, FALSE, now + 1)]
  /\ now' = now + 1
  /\ UNCHANGED <<firestoreOn, tools, subrec, summary, lastRun>>

QueryRead(p, ok) ==
  /\ req[p].pc = "read" /\ req[p].kind = "query"
  /\ req' = [req EXCEPT ![p] =
               IF ok THEN QueryCompute(req[p], Snapshot(tools), req[p].persist, now)
               ELSE OnFailure(req[p], "read")]
  /\ UNCHANGED <<firestoreOn, tools, subrec, summary, now, served, lastRun>>

Wrote(r, keys) == [r EXCEPT !.wrote = @ \cup keys]

\* The request after its pending batch was committed.
Committed(r) ==
  [Wrote(r, BatchKeys(r.batch)) EXCEPT !.committed = @ + Len(r.batch)]

\* Variant: the persisting query also refreshes the subject's summary.
QueryCommitWithSummary(p, ok) ==
  /\ req[p].pc = "commit" /\ req[p].kind = "query"
  /\ IF ok
     THEN /\ subrec' = CommitQueryBatch(subrec, req[p].batch)
          /\ summary' = MergeSet(summary, req[p].toolId,
                                 SummaryOf(NoFields, req[p].scored, now))
          /\ req' = [req EXCEPT ![p] = QueryOk(Committed(req[p]))]
          /\ lastRun' = NoRun
     ELSE /\ req' = [req EXCEPT ![p] = OnFailure(req[p], "commit")]
          /\ UNCHANGED <<subrec, summary, lastRun>>
  /\ UNCHANGED <<firestoreOn, tools, now, served>>

QueryCommit(p, ok) ==
  /\ req[p].pc = "commit" /\ req[p].kind = "query"
  /\ IF ok
     THEN /\ subrec' = CommitQueryBatch(subrec, req[p].batch)
          /\ req' = [req EXCEPT ![p] = QueryOk(Committed(req[p]))]
          /\ lastRun' = NoRun
     ELSE /\ req' = [req EXCEPT ![p] = OnFailure(req[p], "commit")]
          /\ UNCHANGED <<subrec, lastRun>>
  /\ UNCHANGED <<firestoreOn, tools, summary, now, served>>

(***************************************************************************)
(* POST /v1/compatibility/recompute-all                                    *)
(***************************************************************************)

\* if (ops >= 450) commit
FlushDue(ops) == ops >= BatchCeiling

\* Variant: the commit after the loop is missing, operations below the
\* ceiling stay in the batch.
NextAwaitNoFinalCommit(r, took) ==
  IF took > 0 /\ FlushDue(r.ops) THEN [r EXCEPT !.pc = "commit", !.mid = TRUE]
  ELSE [r EXCEPT !.pc = "summary"]

\* The await that follows the loop over scored: a commit (the ceiling was
\* reached at the last set, or the loop ended with operations pending) or the
\* summary write.
NextAwait(r, took) ==
  IF took > 0 /\ FlushDue(r.ops) THEN [r EXCEPT !.pc = "commit", !.mid = TRUE]
  ELSE IF r.ops > 0 THEN [r EXCEPT !.pc = "commit", !.mid = FALSE]
  ELSE [r EXCEPT !.pc = "summary"]

\* Variant: totalWrites counts the loop passes that reached an await.
TakeOpsCountPasses(r, take, clock) ==
  NextAwait([r EXCEPT !.batch = @ \o [i \in 1..take |->
                                        RecomputeOp(r.snap[r.idx]["tool_id"],
                                                    r.scored[r.kpos + i], clock)],
                      !.kpos = @ + take, !.ops = @ + take,
                      !.totalWrites = @ + (IF take > 0 THEN 1 ELSE 0)],
            take)

\* batch.set and the counters for the next `take` entries of scored.
TakeOps(r, take, clock) ==
  NextAwait([r EXCEPT !.batch = @ \o [i \in 1..take |->
                                        RecomputeOp(r.snap[r.idx]["tool_id"],
                                                    r.scored[r.kpos + i], clock)],
                      !.kpos = @ + take, !.ops = @ + take,
                      !.totalWrites = @ + take],
            take)

\* The for-loop over scored from position kpos up to the next await.
PersistLoop(r, clock) ==
  TakeOps(r, Min(Len(r.scored) - r.kpos, BatchCeiling - r.ops), clock)

\* One iteration of `for (const base of tools)` up to its first await, or the
\* response when the loop is over.
BeginTool(r, clock) ==
  IF r.idx > Len(r.snap)
  THEN Respond(r, [status |-> 200, toolsProcessed |-> Len(r.snap),
                   writes |-> r.totalWrites])
  ELSE PersistLoop([r EXCEPT !.scored = Scored(r.snap, r.snap[r.idx], r.limit),
                             !.kpos = 0, !.ops = 0, !.batch = <<>>, !.mid = FALSE,
                             !.subjects = Append(@, r.snap[r.idx]["tool_id"])],
                   clock)

Auths == {"none", "invalid", "valid"}

RecomputeRequest(rawLimit) ==
  [IdleReq EXCEPT !.kind = "recompute", !.limit = RecomputeLimit(rawLimit),
                  !.rawLimit = rawLimit,
                  !.preSub = subrec, !.preSum = summary]

RecomputeStart(p, auth, rawLimit) ==
  /\ CanStart(p)
  /\ served' = served + 1
  /\ req' = [req EXCEPT ![p] =
               IF auth = "none" THEN Respond(RecomputeRequest(rawLimit), [status |-> 401])
               ELSE IF auth = "invalid"
               THEN Respond(RecomputeRequest(rawLimit), [status |-> 403])
               ELSE IF ~firestoreOn
               THEN Respond(RecomputeRequest(rawLimit), [status |-> 500])
               ELSE [RecomputeRequest(rawLimit) EXCEPT !.pc = "read"]]
  /\ now' = now + 1
  /\ UNCHANGED <<firestoreOn, tools, subrec, summary, lastRun>>

\* What a completed run leaves behind, for comparison with the next run.
RunCompleted(r, sub, sum) ==
  [valid |-> TRUE, snap |-> r.snap, limit |-> r.limit,
   sub |-> StripSub(sub), sum |-> StripSum(sum)]

RunRecord(r, sub, sum, otherwise) ==
  IF r.pc = "done" /\ r.resp.status = 200 THEN RunCompleted(r, sub, sum)
  ELSE otherwise

RecomputeRead(p, ok) ==
  /\ req[p].pc = "read" /\ req[p].kind = "recompute"
  /\ req' = [req EXCEPT ![p] =
               IF ok
               THEN BeginTool([req[p] EXCEPT !.snap = Snapshot(tools), !.idx = 1,
                                             !.totalWrites = 0, !.prev = lastRun],
                              now)
               ELSE OnFailure(req[p], "read")]
  /\ lastRun' = RunRecord(req'[p], subrec, summary, lastRun)
  /\ UNCHANGED <<firestoreOn, tools, subrec, summary, now, served>>

\* Variant: the commit replaces the subject's sub-collection by the batch.
RecomputeCommitPruning(p, ok) ==
  /\ req[p].pc = "commit" /\ req[p].kind = "recompute"
  /\ IF ok
     THEN /\ subrec' = ApplyPruning(subrec, req[p].batch)
          /\ req' = [req EXCEPT ![p] =
                       IF req[p].mid
                       THEN PersistLoop([Committed(req[p])
                                           EXCEPT !.batch = <<>>, !.ops = 0,
                                                  !.mid = FALSE], now)
                       ELSE [Committed(req[p]) EXCEPT !.pc = "summary"]]
          /\ lastRun' = NoRun
     ELSE /\ req' = [req EXCEPT ![p] = OnFailure(req[p], "commit")]
          /\ UNCHANGED <<subrec, lastRun>>
  /\ UNCHANGED <<firestoreOn, tools, summary, now, served>>

RecomputeCommit(p, ok) ==
  /\ req[p].pc = "commit" /\ req[p].kind = "recompute"
  /\ IF ok
     THEN /\ subrec' = ApplyBatch(subrec, req[p].batch)
          /\ req' = [req EXCEPT ![p] =
                       IF req[p].mid
                       THEN PersistLoop([Committed(req[p])
                                           EXCEPT !.batch = <<>>, !.ops = 0,
                                                  !.mid = FALSE], now)
                       ELSE [Committed(req[p]) EXCEPT !.pc = "summary"]]
          /\ lastRun' = NoRun
     ELSE /\ req' = [req EXCEPT ![p] = OnFailure(req[p], "commit")]
          /\ UNCHANGED <<subrec, lastRun>>
  /\ UNCHANGED <<firestoreOn, tools, summary, now, served>>

\* Variant: the summary's count is added to the count already stored.
WriteSummaryAdding(store, baseId, scored, clock) ==
  MergeSet(store, baseId, SummaryIncrement(SubAt(store, baseId), scored, clock))

\* firestore.collection('tools').doc(baseId).set({compatibility_summary}, merge)
WriteSummary(store, baseId, scored, clock) ==
  MergeSet(store, baseId, SummaryOf(SubAt(store, baseId), scored, clock))

RecomputeSummary(p, ok) ==
  /\ req[p].pc = "summary" /\ req[p].kind = "recompute"
  /\ IF ok
     THEN /\ summary' = WriteSummary(summary, req[p].snap[req[p].idx]["tool_id"],
                                     req[p].scored, now)
          /\ req' = [req EXCEPT ![p] =
                       BeginTool([Wrote(req[p], {<<req[p].snap[req[p].idx]["tool_id"]>>})
                                    EXCEPT !.idx = @ + 1], now)]
          /\ lastRun' = RunRecord(req'[p], subrec, summary', NoRun)
     ELSE /\ req' = [req EXCEPT ![p] = OnFailure(req[p], "summary")]
          /\ UNCHANGED <<summary, lastRun>>
  /\ UNCHANGED <<firestoreOn, tools, subrec, now, served>>

\* The caller asks a run in flight to stop (the only means HTTP gives it is to
\* abort the request).  The handler registers no listener and reads no flag:
\* nothing of lines 105-155 looks at the request again after line 108.
RequestCancel(p) ==
  /\ req[p].kind = "recompute"
  /\ req[p].pc \in {"read", "commit", "summary"}
  /\ ~req[p].cancelled
  /\ req' = [req EXCEPT ![p].cancelled = TRUE, ![p].cancelAt = req[p].idx]
  /\ UNCHANGED <<firestoreOn, tools, subrec, summary, now, served, lastRun>>

(***************************************************************************)
(* Environment: registry writes                                            *)
(***************************************************************************)

\* POST /v1/tools: docRef.set(validatedTool, { merge: true })
AddTool(d) ==
  /\ firestoreOn
  /\ tools' = MergeSet(tools, d["tool_id"], d)
  /\ tools' # tools
  /\ UNCHANGED <<firestoreOn, subrec, summary, now, req, served, lastRun>>

ScoreIdle == sa = NoFields /\ sb = NoFields /\ sout = "none" /\ spc = "off"

NormIdle == nlist = <<>> /\ nset = "none" /\ npc = "off"

BatchIdle ==
  /\ bN = 0 /\ bLimit = NaN /\ bIdx = 0 /\ bKept = 0 /\ bK = 0 /\ bOps = 0
  /\ bBatch = 0 /\ bFlush = 0 /\ bTotal = 0 /\ bpc = "off"

Init ==
  /\ ScoreIdle
  /\ NormIdle
  /\ BatchIdle
  /\ firestoreOn \in BOOLEAN
  /\ tools \in Registries
  /\ (~firestoreOn => tools = NoFields)
  /\ subrec = NoFields
  /\ summary = NoFields
  /\ now = 0
  /\ req = [p \in Procs |-> IdleReq]
  /\ served = 0
  /\ lastRun = NoRun

Handler(p) ==
  \/ \E t \in ToolIdParams, l \in RawLimits, ps \in BOOLEAN : QueryStart(p, t, l, ps)
  \/ \E ok \in BOOLEAN : QueryRead(p, ok)
  \/ \E ok \in BOOLEAN : QueryCommit(p, ok)
  \/ \E a \in Auths, l \in RawLimits : RecomputeStart(p, a, l)
  \/ \E ok \in BOOLEAN : RecomputeRead(p, ok)
  \/ \E ok \in BOOLEAN : RecomputeCommit(p, ok)
  \/ \E ok \in BOOLEAN : RecomputeSummary(p, ok)
  \/ RequestCancel(p)

\* One request at a time: a single handler instance serves the requests in
\* sequence while the registry changes freely; time passes between requests.
Next ==
  \/ (Handler(1) /\ UNCHANGED <<scoreVars, normVars, batchVars>>)
  \/ (\E d \in PostedProfiles : AddTool(d) /\ UNCHANGED <<scoreVars, normVars, batchVars>>)

Spec == Init /\ [][Next]_vars

StoreIdle ==
  /\ firestoreOn = FALSE /\ tools = NoFields /\ subrec = NoFields
  /\ summary = NoFields /\ now = 0 /\ req = [p \in Procs |-> IdleReq]
  /\ served = 0 /\ lastRun = NoRun

(***************************************************************************)
(* Scorer inputs: every combination of present, missing and empty lists    *)
(***************************************************************************)
Opt(f, choices) == {NoFields} \cup {(f :> c) : c \in choices}

CategoryLists == {<<"ide">>, <<"IDE", "ai">>}
IntegrationLists ==
  {<<"GitHub">>, <<"github", "Vercel">>, <<"GitHub", "Vercel", "Netlify">>}
VerifiedLists == {<<"github">>}
FrameworkLists == {<<>>, <<"react">>}
LanguageLists == {<<"ts">>}
SupportedLanguageLists == {<<"ts", "py">>}
LimitationLists == {<<"x">>, <<"x", "y">>}

ScoreInputs ==
  {c @@ i @@ v @@ fr @@ l @@ sl @@ k :
     c \in Opt("category", CategoryLists),
     i \in Opt("integrations", IntegrationLists),
     v \in Opt("verified_integrations", VerifiedLists),
     fr \in Opt("frameworks", FrameworkLists),
     l \in Opt("languages", LanguageLists),
     sl \in Opt("supported_languages", SupportedLanguageLists),
     k \in Opt("known_limitations", LimitationLists)}

InitScore ==
  /\ sa \in ScoreInputs
  /\ sb \in ScoreInputs
  /\ sout = "none"
  /\ spc = "call"
  /\ NormIdle
  /\ StoreIdle
  /\ BatchIdle

Score ==
  /\ spc = "call"
  /\ sout' = scoreCompatibility(sa, sb)
  /\ spc' = "returned"
  /\ UNCHANGED <<sa, sb>>
  /\ UNCHANGED <<normVars, storeVars, batchVars>>

NextScore == Score

SpecScore == InitScore /\ [][NextScore]_vars

\* C1: for every pair of descriptors the score returned by scoreCompatibility
\* lies between 0 and 1 (0 and 1000 thousandths).
C1_ScoreInRange == spc = "returned" => (0 <= sout /\ sout <= ScoreCeiling)

\* C7: scoreCompatibility is symmetric: the score of (A, B) equals the score
\* of (B, A).
C7_Symmetric == spc = "returned" => sout = scoreCompatibility(sb, sa)

\* An asymmetric pair (different integration and category lists) has been
\* scored.
C7_Witness ==
  /\ spc = "returned"
  /\ sa # sb
  /\ OrEmpty(sa, "integrations") = <<"GitHub">>
  /\ OrEmpty(sb, "integrations") = <<"github", "Vercel">>
  /\ "known_limitations" \in DOMAIN sa
  /\ "known_limitations" \notin DOMAIN sb
  /\ sout > 0

(***************************************************************************)
(* The batching of the recompute path over registries too large to score:  *)
(* the walk of lines 113-149 with every tool reduced to the number of its  *)
(* kept pairs.                                                             *)
(***************************************************************************)
MaxRegistry == 3
BigRegistry == 1000

BatchRawLimits == {AbsentParam, NaN, Num(2), Num(20), Num(100), Num(2000)}

\* Variant: one batch object shared by all tools.
CarriedBatch(prev) == prev

\* let batch = firestore.batch() at the top of the loop body: every tool
\* starts with an empty batch.
BatchForTool(prev) == 0

InitBatch ==
  /\ ScoreIdle
  /\ NormIdle
  /\ StoreIdle
  /\ bN \in (0..MaxRegistry) \cup {BigRegistry}
  /\ \E raw \in BatchRawLimits : bLimit = RecomputeLimit(raw)
  /\ bIdx = 1 /\ bKept = 0 /\ bK = 0 /\ bOps = 0 /\ bBatch = 0 /\ bFlush = 0
  /\ bTotal = 0 /\ bpc = "tool"

\* The head of the loop over tools: score, sort, slice, fresh batch.
BatchBeginTool ==
  /\ bpc = "tool"
  /\ IF bIdx > bN
     THEN /\ bpc' = "done"
          /\ UNCHANGED <<bKept, bK, bOps, bBatch>>
     ELSE /\ bKept' = Min(bN - 1, SliceEnd(bLimit))
          /\ bK' = 0
          /\ bOps' = 0
          /\ bBatch' = BatchForTool(bBatch)
          /\ bpc' = "loop"
  /\ UNCHANGED <<bN, bLimit, bIdx, bFlush, bTotal>>

\* One pass of the loop over scored: batch.set, the counters, and the commit
\* when the counter reaches the ceiling.
BatchSet ==
  /\ bpc = "loop"
  /\ bK < bKept
  /\ bK' = bK + 1
  /\ bTotal' = bTotal + 1
  /\ IF FlushDue(bOps + 1)
     THEN bFlush' = bBatch + 1 /\ bBatch' = 0 /\ bOps' = 0
     ELSE bBatch' = bBatch + 1 /\ bOps' = bOps + 1 /\ UNCHANGED bFlush
  /\ UNCHANGED <<bN, bLimit, bIdx, bKept, bpc>>

\* After the loop: the commit of what is pending, the summary write, the
\* next tool.
BatchEndTool ==
  /\ bpc = "loop"
  /\ bK = bKept
  /\ bFlush' = IF bOps > 0 THEN bBatch ELSE bFlush
  /\ bIdx' = bIdx + 1
  /\ bpc' = "tool"
  /\ UNCHANGED <<bN, bLimit, bKept, bK, bOps, bBatch, bTotal>>

NextBatch ==
  \/ (BatchBeginTool /\ UNCHANGED <<scoreVars, normVars, storeVars>>)
  \/ (BatchSet /\ UNCHANGED <<scoreVars, normVars, storeVars>>)
  \/ (BatchEndTool /\ UNCHANGED <<scoreVars, normVars, storeVars>>)

SpecBatch == InitBatch /\ [][NextBatch]_vars

\* C2: in the recompute path no single batch commit holds more than 450
\* write operations, whatever the registry size and the limit.
C2_FlushWithinCeiling == bFlush <= BatchCeiling

\* The scenario of 1000 tools and a limit of 10: a tool's 10 sub-records have
\* been committed in one batch, several tools into the run.
C2_Witness ==
  /\ bN = BigRegistry /\ bLimit = Num(2 * DefaultRecomputeLimit)
  /\ bIdx > 50 /\ bFlush = DefaultRecomputeLimit /\ bTotal > BatchCeiling

(***************************************************************************)
(* Properties of the two paths, one request at a time                      *)
(***************************************************************************)
R == req[1]

\* The sub-record keys the request in flight has written under subject id.
WrittenUnder(r, id) == {k \in r.wrote : Len(k) = 2 /\ k[1] = id}

MaxOf(S) == CHOOSE x \in S : \A y \in S : y <= x

\* The reference ordering: list holds the first n peers of snap[b] by
\* descending rank score, equal rank scores in snapshot order.
PeerIdx(snap, b) == {j \in DOMAIN snap : snap[j]["tool_id"] # snap[b]["tool_id"]}

Before(snap, b, i, j) ==
  LET ri == ScoredEntry(snap[b], snap[i]).rankScore
      rj == ScoredEntry(snap[b], snap[j]).rankScore
  IN  ri > rj \/ (ri = rj /\ i < j)

IsTopByRank(list, snap, b, n) ==
  /\ Len(list) = Min(n, Cardinality(PeerIdx(snap, b)))
  /\ \E f \in [DOMAIN list -> PeerIdx(snap, b)] :
       /\ \A k \in DOMAIN list : list[k] = ScoredEntry(snap[b], snap[f[k]])
       /\ \A k \in DOMAIN list, j \in PeerIdx(snap, b) :
            (\A m \in 1..k : f[m] # j) => Before(snap, b, f[k], j)

RecomputeDone(r) == r.kind = "recompute" /\ r.pc = "done" /\ r.resp.status = 200

\* C3: a recompute that follows a completed recompute of the same registry
\* snapshot with the same limit, nothing written in between, leaves storage
\* as it found it except for timestamps.
C3_Idempotent ==
  (/\ RecomputeDone(R) /\ "writes" \in DOMAIN R.resp
   /\ R.prev.valid /\ R.prev.snap = R.snap /\ R.prev.limit = R.limit)
  => (StripSub(subrec) = R.prev.sub /\ StripSum(summary) = R.prev.sum)

\* A second run over three tools that rewrote sub-records and summaries.
C3_Witness ==
  /\ RecomputeDone(R) /\ "writes" \in DOMAIN R.resp
  /\ R.prev.valid /\ R.prev.snap = R.snap /\ R.prev.limit = R.limit
  /\ Len(R.snap) = 3 /\ R.resp.writes >= 3
  /\ \E id \in DOMAIN summary : summary[id]["count_above_0_7"] >= 1

\* C4: when a storage write of the recompute path fails at tool T the run
\* answers 500 and stops: the writes of T that were still to come and those of
\* the tools after T are not performed, and the sub-records and summaries of
\* the tools before T hold the values this run computed.
C4_FailureAborts ==
  (R.kind = "recompute" /\ R.failed \in {"commit", "summary"}) =>
    /\ R.pc = "done" /\ R.resp = [status |-> 500]
    /\ \A j \in DOMAIN R.snap :
         LET id == R.snap[j]["tool_id"]
             kept == Scored(R.snap, R.snap[j], R.limit)
         IN  /\ j < R.idx =>
                  /\ \A i \in DOMAIN kept :
                       /\ <<id, kept[i].tool_id>> \in DOMAIN subrec
                       /\ subrec[<<id, kept[i].tool_id>>] =
                            RecomputeOp(id, kept[i], now).data
                  /\ id \in DOMAIN summary
                  /\ summary[id] = SummaryOf(NoFields, kept, now)
             /\ j >= R.idx => SubAt(summary, id) = SubAt(R.preSum, id)
             /\ (j > R.idx \/ (j = R.idx /\ R.failed = "commit")) =>
                  \A k \in (DOMAIN subrec) \cup (DOMAIN R.preSub) :
                    k[1] = id => SubAt(subrec, k) = SubAt(R.preSub, k)

\* The commit of the second tool's batch failed after the first tool was
\* fully persisted.
C4_Witness ==
  /\ R.kind = "recompute" /\ R.failed = "commit"
  /\ R.idx = 2 /\ Len(R.snap) = 3 /\ Len(R.batch) >= 1 /\ R.wrote # {}

C6_NotFound ==
  (/\ R.kind = "query" /\ R.pc = "done" /\ R.failed = "none" /\ R.toolId # ""
   /\ \A i \in DOMAIN R.snap : R.snap[i]["tool_id"] # R.toolId)
  => /\ R.resp = [status |-> 404]
     /\ R.wrote = {}
     /\ subrec = R.preSub /\ summary = R.preSum

\* An unknown id was queried with persist against a registry of three tools.
C6_Witness ==
  /\ R.kind = "query" /\ R.pc = "done" /\ R.resp.status = 404
  /\ R.persist /\ firestoreOn /\ Len(R.snap) = 3 /\ R.toolId = "ghost"

\* C8: once the recompute path has finished tool T, T's summary holds the
\* largest rankScore among the sub-records this run kept for T (0 when it kept
\* none) and the number of them with rankScore >= 0.7.
C8_SummaryOfKept ==
  (R.kind = "recompute" /\ R.idx >= 1) =>
    \A j \in DOMAIN R.snap :
      j < R.idx =>
        LET id == R.snap[j]["tool_id"]
            ranks == [k \in WrittenUnder(R, id) |-> subrec[k]["rank_score"]]
        IN  /\ id \in DOMAIN summary
            /\ summary[id]["top_rank_score"] =
                 (IF DOMAIN ranks = {} THEN 0
                  ELSE MaxOf({ranks[k] : k \in DOMAIN ranks}))
            /\ summary[id]["count_above_0_7"] =
                 Cardinality({k \in DOMAIN ranks : ranks[k] >= Threshold})

\* A run with limit 1.5 finished replit: one kept pair, whose rank score 0.710
\* is above the threshold while its score 0.617 is not.
C8_Witness ==
  /\ RecomputeDone(R) /\ Len(R.snap) = 3 /\ R.limit = Num(3)
  /\ "replit" \in DOMAIN summary
  /\ summary["replit"]["count_above_0_7"] = 1
  /\ summary["replit"]["top_rank_score"] = 710
  /\ subrec[<<"replit", "bolt">>]["score"] = 617

\* The rank scores of all peers of snap[j] in the snapshot.
PeerRanks(snap, j) ==
  [i \in PeerIdx(snap, j) |-> ScoredEntry(snap[j], snap[i]).rankScore]

\* C9 as stated: after a successful recompute countAboveThreshold counts the
\* peers of the whole registry at or above 0.7 and topRankScore is the highest
\* rankScore against any peer.
C9_Original ==
  (RecomputeDone(R) /\ "writes" \in DOMAIN R.resp) =>
    \A j \in DOMAIN R.snap :
      LET id == R.snap[j]["tool_id"]
          pr == PeerRanks(R.snap, j)
      IN  /\ summary[id]["count_above_0_7"] =
               Cardinality({i \in DOMAIN pr : pr[i] >= Threshold})
          /\ summary[id]["top_rank_score"] =
               (IF DOMAIN pr = {} THEN 0 ELSE MaxOf({pr[i] : i \in DOMAIN pr}))

\* C9 amended: after a successful recompute countAboveThreshold is the number
\* of registry peers at or above 0.7 capped at the number of kept pairs, and
\* topRankScore is the highest rankScore against any registry peer when at
\* least one pair was kept, else 0.
C9_Amended ==
  (RecomputeDone(R) /\ "writes" \in DOMAIN R.resp) =>
    \A j \in DOMAIN R.snap :
      LET id == R.snap[j]["tool_id"]
          pr == PeerRanks(R.snap, j)
          nKept == Cardinality(WrittenUnder(R, id))
      IN  /\ summary[id]["count_above_0_7"] =
               Min(nKept, Cardinality({i \in DOMAIN pr : pr[i] >= Threshold}))
          /\ summary[id]["top_rank_score"] =
               (IF nKept = 0 THEN 0 ELSE MaxOf({pr[i] : i \in DOMAIN pr}))

\* A run with limit 1.5 over three tools: replit has two peers at 0.710 and
\* one kept pair, its summary counts 1.
C9_Witness ==
  /\ RecomputeDone(R) /\ "writes" \in DOMAIN R.resp
  /\ Len(R.snap) = 3 /\ R.limit = Num(3)
  /\ Cardinality({i \in PeerIdx(R.snap, 3) : PeerRanks(R.snap, 3)[i] >= Threshold}) = 2
  /\ summary["replit"]["count_above_0_7"] = 1
  /\ summary["bolt"]["top_rank_score"] = 960

\* C10: a step of the single-target query never deletes a sub-record, and it
\* leaves unchanged every sub-record of another subject or of a peer outside
\* the matches it kept.
C10_UpsertOnly ==
  [][(req'[1].kind = "query" /\ req'[1] # req[1]) =>
       \A k \in DOMAIN subrec :
         /\ k \in DOMAIN subrec'
         /\ (k[1] # req'[1].toolId
               \/ \A i \in DOMAIN req'[1].scored : req'[1].scored[i].tool_id # k[2])
            => subrec'[k] = subrec[k]]_vars

\* A persisting query has left in place a sub-record of its subject that is
\* not among the matches it wrote.
C10_Witness ==
  /\ R.kind = "query" /\ R.pc = "done" /\ R.resp.status = 200 /\ R.wrote # {}
  /\ \E k \in DOMAIN subrec : k[1] = R.toolId /\ k \notin R.wrote
\* C11: a cancellation request is honoured between two tools and never in the
\* middle of one: once it has arrived the run finishes the tool in progress
\* (the first tool, if it arrived before any) and starts no other, and every tool whose sub-records the run wrote also
\* has the summary the run wrote.
C11_CancelBetweenTools ==
  (R.kind = "recompute" /\ R.cancelled) =>
    /\ \/ R.idx <= Max(R.cancelAt, 1)
       \/ (R.idx = Max(R.cancelAt, 1) + 1 /\ R.pc = "done")
    /\ (R.pc = "done" /\ R.failed = "none") =>
         \A i \in DOMAIN R.snap :
           WrittenUnder(R, R.snap[i]["tool_id"]) # {}
             => <<R.snap[i]["tool_id"]>> \in R.wrote

(***************************************************************************)
(* Ranker inputs: pairs of a base and a peer with and without a popularity *)
(***************************************************************************)

\* popularity_score of a stored document, in tenths: 0, 0.5 and 1.
PopularityValues == {0, 5, 10}

\* The descriptor t with field f set to v.
WithField(t, f, v) == (f :> v) @@ t

RankInputs(id) ==
  {[tool_id |-> id, name |-> id] @@ c @@ i @@ k @@ pop :
     c \in Opt("category", CategoryLists),
     i \in Opt("integrations", IntegrationLists),
     k \in Opt("known_limitations", LimitationLists),
     pop \in Opt("popularity_score", PopularityValues)}

InitRank ==
  /\ sa \in RankInputs("base")
  /\ sb \in RankInputs("peer")
  /\ sout = "none"
  /\ spc = "call"
  /\ NormIdle
  /\ StoreIdle
  /\ BatchIdle

\* The two map steps of lines 74-82 applied to one peer.
Rank ==
  /\ spc = "call"
  /\ sout' = ScoredEntry(sa, sb)
  /\ spc' = "returned"
  /\ UNCHANGED <<sa, sb>>
  /\ UNCHANGED <<normVars, storeVars, batchVars>>

NextRank == Rank

SpecRank == InitRank /\ [][NextRank]_vars

\* C12: for a fixed score the rank score does not decrease when the average
\* popularity grows: raising the peer's popularity never lowers the rank score
\* of the pair.
C12_RankMonotone ==
  spc = "returned" =>
    \A q \in PopularityValues :
      Popularity(sb) <= q =>
        sout.rankScore
          <= ScoredEntry(sa, WithField(sb, "popularity_score", q)).rankScore

\* C13: with both popularities in [0,1] the rank score is the score adjusted
\* upward only and by at most 20%: score <= rankScore <= 1.2 * score.
C13_RankWithinBoost ==
  spc = "returned" =>
    /\ sout.score <= sout.rankScore
    /\ 10 * sout.rankScore <= 12 * sout.score

(***************************************************************************)
(* Properties of the scorer over pairs of pairs                            *)
(***************************************************************************)

\* Category lists that share no label with any list of CategoryLists.
DisjointCategoryLists == {<<>>, <<"design">>}

CatsOf(t) == normalizeList(OrEmpty(t, "category"))

\* C14 as stated: a pair sharing a category label scores exactly 0.05 more
\* than the pair that differs from it only in sharing none.
C14_Original ==
  (spc = "returned" /\ CatsOf(sa) \cap CatsOf(sb) # {}) =>
    \A c \in DisjointCategoryLists :
      sout - scoreCompatibility(sa, WithField(sb, "category", c)) = CategoryBoost

\* C14 as amended: the pair sharing a category label scores strictly more, by
\* at least 0.05: by the boost plus 0.2 times the Jaccard ratio of its category
\* sets, within one thousandth for the two roundings, unless the cap at 1 cut
\* the higher score.
C14_Amended ==
  (spc = "returned" /\ CatsOf(sa) \cap CatsOf(sb) # {}) =>
    \A c \in DisjointCategoryLists :
      LET diff == sout - scoreCompatibility(sa, WithField(sb, "category", c))
          j == jaccard(CatsOf(sa), CatsOf(sb))
          exact == CategoryBoost * j.den + WeightCategory * j.num
      IN  /\ diff >= CategoryBoost
          /\ sout < ScoreCeiling =>
               Abs(diff * j.den - exact) <= j.den

\* A pair sharing "ide" out of two labels has been scored: 0.15 above the pair
\* that shares none.
C14_Witness ==
  /\ spc = "returned"
  /\ CatsOf(sa) = {"ide"} /\ CatsOf(sb) = {"ide", "ai"}
  /\ sout - scoreCompatibility(sa, WithField(sb, "category", <<"design">>)) = 150

\* Labels added to both descriptors' known_limitations.
AddedLimitations == {"x", "y", "z"}

\* The descriptor t with label l appended to its known_limitations.
AddLimitation(t, l) ==
  WithField(t, "known_limitations", Append(OrEmpty(t, "known_limitations"), l))

\* C15: adding a known-limitation label that both descriptors then share,
\* every other field fixed, never increases the score.
C15_SharedLimitationNeverRaises ==
  spc = "returned" =>
    \A l \in AddedLimitations :
      scoreCompatibility(AddLimitation(sa, l), AddLimitation(sb, l)) <= sout

\* A pair whose limitation lists overlap in part has been scored, and a new
\* shared label lowers its score.
C15_Witness ==
  /\ spc = "returned"
  /\ OrEmpty(sa, "known_limitations") = <<"x">>
  /\ OrEmpty(sb, "known_limitations") = <<"x", "y">>
  /\ scoreCompatibility(AddLimitation(sa, "z"), AddLimitation(sb, "z")) < sout

\* The reference value of the score, computed apart from the scorer: every
\* Jaccard ratio in sixtieths (the set sizes of the inputs divide 60), the
\* weighted sum in sixtieths of a thousandth, the cap at 1, the rounding to
\* the nearest thousandth with halves away from zero.
RefScale == 3 * 4 * 5

RefRatio(setA, setB) ==
  IF setA \cup setB = {} THEN 0
  ELSE (RefScale * Cardinality(setA \cap setB)) \div Cardinality(setA \cup setB)

RefCond(setA, setB) == IF setA = {} \/ setB = {} THEN 0 ELSE RefRatio(setA, setB)

RefSet(t, f) == {toLowerCase(x) : x \in {OrEmpty(t, f)[i] : i \in DOMAIN OrEmpty(t, f)}} \ {""}

RefLang(t) ==
  IF "languages" \in DOMAIN t THEN RefSet(t, "languages")
  ELSE RefSet(t, "supported_languages")

RefSum(a, b) ==
  550 * RefRatio(RefSet(a, "integrations"), RefSet(b, "integrations"))
  + 200 * RefRatio(RefSet(a, "category"), RefSet(b, "category"))
  + 100 * RefCond(RefSet(a, "verified_integrations"), RefSet(b, "verified_integrations"))
  + 100 * RefCond(RefSet(a, "frameworks"), RefSet(b, "frameworks"))
  + 50 * RefCond(RefLang(a), RefLang(b))
  - 200 * RefCond(RefSet(a, "known_limitations"), RefSet(b, "known_limitations"))
  + (IF RefSet(a, "category") \cap RefSet(b, "category") = {} THEN 0
     ELSE 50 * RefScale)

RefRound3(n) ==
  IF n >= 0 THEN (2 * n + RefScale) \div (2 * RefScale)
  ELSE 0 - ((2 * (0 - n) + RefScale) \div (2 * RefScale))

RefScore(a, b) == RefRound3(Min(1000 * RefScale, RefSum(a, b)))

\* C16: for every descriptor pair scoreCompatibility equals the reference
\* round3(min(1, 0.55 i + 0.20 c + 0.10 v + 0.10 f + 0.05 l - 0.20 p + boost));
\* {integrations: github, vercel; category: ide} against {integrations:
\* github; category: ide} scores 0.525.
C16_MatchesReference ==
  spc = "returned" =>
    /\ sout = RefScore(sa, sb)
    /\ (/\ RefSet(sa, "integrations") = {"github", "vercel"}
        /\ RefSet(sb, "integrations") = {"github"}
        /\ RefSet(sa, "category") = {"ide"} /\ RefSet(sb, "category") = {"ide"}
        /\ DOMAIN sa \cup DOMAIN sb \subseteq {"integrations", "category"})
       => sout = 525

\* The pair of the worked example has been scored.
C16_Witness ==
  /\ spc = "returned"
  /\ sa = ("category" :> <<"ide">>) @@ ("integrations" :> <<"github", "Vercel">>)
  /\ sb = ("category" :> <<"ide">>) @@ ("integrations" :> <<"GitHub">>)
  /\ sout = 525

\* The descriptor t without the fields fs.
Without(t, fs) == [f \in (DOMAIN t) \ fs |-> t[f]]

\* The four conditional dimensions and the fields each one reads.
ConditionalDimensions ==
  {{"verified_integrations"}, {"frameworks"}, {"languages", "supported_languages"},
   {"known_limitations"}}

\* The normalized set a descriptor shows in a dimension.
DimensionSet(t, dim) ==
  IF "languages" \in dim THEN normalizeList(LanguageList(t))
  ELSE UNION {normalizeList(OrEmpty(t, f)) : f \in dim}

\* C17: if either descriptor's normalized set is empty in the verified,
\* framework, language or limitation dimension, that dimension contributes
\* exactly 0: the score is the score of the pair with the dimension removed
\* from both.  A descriptor missing every comparable field scores 0 against
\* any other.
C17_ConditionalZero ==
  spc = "returned" =>
    /\ \A dim \in ConditionalDimensions :
         (DimensionSet(sa, dim) = {} \/ DimensionSet(sb, dim) = {}) =>
           sout = scoreCompatibility(Without(sa, dim), Without(sb, dim))
    /\ (sa = NoFields \/ sb = NoFields) => sout = 0

\* A descriptor without any field has been scored against one that carries
\* every field.
C17_Witness ==
  /\ spc = "returned"
  /\ sa = NoFields
  /\ DOMAIN sb = {"category", "integrations", "verified_integrations",
                  "frameworks", "languages", "supported_languages",
                  "known_limitations"}
  /\ sb["frameworks"] = <<"react">>
  /\ sout = 0

\* The list-valued attributes the scorer reads.
ListFields ==
  {"category", "integrations", "verified_integrations", "frameworks",
   "languages", "supported_languages", "known_limitations"}

\* The same labels written in another case.
OtherCase ==
  ("ide" :> "IDE") @@ ("IDE" :> "ide") @@ ("ai" :> "AI")
  @@ ("GitHub" :> "GITHUB") @@ ("github" :> "GitHub") @@ ("Vercel" :> "VERCEL")
  @@ ("Netlify" :> "NETLIFY") @@ ("react" :> "React") @@ ("ts" :> "TS")
  @@ ("py" :> "Py") @@ ("x" :> "X") @@ ("y" :> "Y")

Reversed(list) == [i \in DOMAIN list |-> list[Len(list) + 1 - i]]

Recased(list) ==
  [i \in DOMAIN list |->
     IF list[i] \in DOMAIN OtherCase THEN OtherCase[list[i]] ELSE list[i]]

\* A permutation, a copy with every entry repeated, a copy in another case.
Rewritings(list) == {Reversed(list), list \o list, Recased(list)} \ {list}

\* C18: replacing a list-valued attribute of either descriptor by a
\* permutation of it, by a copy with repeated entries or by a copy in another
\* letter case leaves the score unchanged.
C18_OrderDuplicatesCase ==
  spc = "returned" =>
    /\ \A f \in ListFields \cap DOMAIN sa : \A v \in Rewritings(sa[f]) :
         scoreCompatibility(WithField(sa, f, v), sb) = sout
    /\ \A f \in ListFields \cap DOMAIN sb : \A v \in Rewritings(sb[f]) :
         scoreCompatibility(sa, WithField(sb, f, v)) = sout

\* A pair with three integrations on one side, written in mixed case, and a
\* positive score has been scored.
C18_Witness ==
  /\ spc = "returned"
  /\ OrEmpty(sa, "integrations") = <<"GitHub", "Vercel", "Netlify">>
  /\ OrEmpty(sb, "integrations") = <<"github", "Vercel">>
  /\ OrEmpty(sb, "category") = <<"IDE", "ai">>
  /\ sout > 0

(***************************************************************************)
(* normalizeList on raw lists                                              *)
(***************************************************************************)
MaxListLen == 3

RawEntries == {"", " ", " github", "github", "GitHub", NullEntry, UndefinedEntry}

RawLists == UNION {[1..n -> RawEntries] : n \in 0..MaxListLen}

InitNorm ==
  /\ nlist \in RawLists
  /\ nset = "none"
  /\ npc = "call"
  /\ ScoreIdle
  /\ StoreIdle
  /\ BatchIdle

Normalize ==
  /\ npc = "call"
  /\ nset' = normalizeList(nlist)
  /\ npc' = "returned"
  /\ UNCHANGED nlist
  /\ UNCHANGED <<scoreVars, storeVars, batchVars>>

NextNorm == Normalize

SpecNorm == InitNorm /\ [][NextNorm]_vars

\* String.prototype.trim on the entries of the model.
Trim(s) == IF s = " " THEN "" ELSE IF s = " github" THEN "github" ELSE s

\* C19: the normalized set never contains the empty string, a whitespace-only
\* string or a string produced from a null or undefined entry, and entries
\* that differ only in surrounding whitespace normalize to the same element:
\* the set is that of the trimmed, lower-cased entries that are strings and
\* not empty.
C19_DropsEmptyAfterTrim ==
  npc = "returned" =>
    nset = {toLowerCase(Trim(nlist[i])) :
              i \in {j \in DOMAIN nlist :
                       nlist[j] \notin {NullEntry, UndefinedEntry}}} \ {""}

\* A limit in halves that is a whole number between lo and hi.
WholeWithin(limit, lo, hi) ==
  /\ limit.k = "num"
  /\ limit.v % 2 = 0
  /\ lo <= limit.v \div 2 /\ limit.v \div 2 <= hi

\* C20: whatever the limit parameter, the effective limit of the
\* single-target query is an integer in 1..20 (5 when absent) and that of the
\* recompute path an integer in 1..50 (10 when absent).
C20_EffectiveLimit ==
  /\ R.kind = "query" =>
       /\ WholeWithin(R.limit, MinLimit, MaxQueryLimit)
       /\ R.rawLimit = AbsentParam => R.limit = Num(2 * DefaultQueryLimit)
  /\ R.kind = "recompute" =>
       /\ WholeWithin(R.limit, MinLimit, MaxRecomputeLimit)
       /\ R.rawLimit = AbsentParam => R.limit = Num(2 * DefaultRecomputeLimit)

\* C21: a recompute that completes reports as tools processed the number of
\* tools of the snapshot, has taken every tool of the snapshot as subject
\* exactly once, in order, and reports as writes the number of sub-record
\* operations in the batches it committed.
C21_ReportedTotals ==
  (RecomputeDone(R) /\ "writes" \in DOMAIN R.resp) =>
    /\ R.resp.toolsProcessed = Len(R.snap)
    /\ R.subjects = [i \in DOMAIN R.snap |-> R.snap[i]["tool_id"]]
    /\ R.resp.writes = R.committed
    /\ R.resp.writes = Cardinality({k \in R.wrote : Len(k) = 2})

\* A run over three tools with the default limit has completed: three
\* subjects, six sub-record writes.
C21_Witness ==
  /\ RecomputeDone(R) /\ "writes" \in DOMAIN R.resp
  /\ Len(R.snap) = 3 /\ R.rawLimit = AbsentParam
  /\ R.resp.toolsProcessed = 3 /\ R.resp.writes = 6

\* C22: no step of the single-target query, with or without persist, changes
\* the summary of any tool.
C22_QueryLeavesSummaries ==
  [][(req'[1].kind = "query" /\ req'[1] # req[1]) => summary' = summary]_vars

\* A persisting query has written sub-records of a subject whose summary an
\* earlier recompute wrote; the summaries are as the query found them.
C22_Witness ==
  /\ R.kind = "query" /\ R.pc = "done" /\ R.resp.status = 200 /\ R.wrote # {}
  /\ R.toolId \in DOMAIN summary
  /\ summary = R.preSum

\* A request that passed its own validation: a query with a subject id, a
\* recompute with a valid admin token.
PastValidation(r) ==
  \/ (r.kind = "query" /\ r.toolId # "")
  \/ (r.kind = "recompute" /\ r.resp.status \notin {401, 403})

\* C23: when the registry cannot be read (no store, or the read fails) or a
\* persist write fails, both paths answer with a 5xx outcome that carries
\* nothing else, no matches and no partial results.
C23_InfrastructureFailure ==
  (R.pc = "done" /\ PastValidation(R) /\ (~firestoreOn \/ R.failed # "none")) =>
    /\ R.resp.status >= 500
    /\ DOMAIN R.resp = {"status"}

\* The position in snap of the tool with the given id.
IndexOf(snap, id) == CHOOSE i \in DOMAIN snap : snap[i]["tool_id"] = id

\* The score of the pair (subject, peer) of snap had the tools the popularity
\* values pa and pb.
ScoreWithPopularity(snap, subject, peer, pa, pb) ==
  scoreCompatibility(
    WithField(snap[IndexOf(snap, subject)], "popularity_score", pa),
    WithField(snap[IndexOf(snap, peer)], "popularity_score", pb))

\* C24: popularity never influences the score: the score returned for every
\* (subject, peer) pair, and the score persisted for it, is the score the pair
\* has under every other choice of the two popularity values.
C24_PopularityFreeScore ==
  (R.kind \in {"query", "recompute"} /\ R.idx \in DOMAIN R.snap) =>
    \A i \in DOMAIN R.scored : \A pa, pb \in PopularityValues :
      /\ R.scored[i].score =
           ScoreWithPopularity(R.snap, R.snap[R.idx]["tool_id"],
                               R.scored[i].tool_id, pa, pb)
      /\ <<R.snap[R.idx]["tool_id"], R.scored[i].tool_id>> \in R.wrote =>
           subrec[<<R.snap[R.idx]["tool_id"], R.scored[i].tool_id>>]["score"]
             = R.scored[i].score

\* A persisting query for bolt, whose popularity is 1, has written a pair
\* whose rank score differs from its score.
C24_Witness ==
  /\ R.kind = "query" /\ R.pc = "done" /\ R.resp.status = 200
  /\ R.toolId = "bolt" /\ <<"bolt", "cursor">> \in R.wrote
  /\ subrec[<<"bolt", "cursor">>]["score"] < subrec[<<"bolt", "cursor">>]["rank_score"]

\* The kept pairs of snap[j] are all in storage with the values the run r
\* computed for them.
KeptCommitted(r, j) ==
  \A i \in DOMAIN Scored(r.snap, r.snap[j], r.limit) :
    LET op == RecomputeOp(r.snap[j]["tool_id"],
                          Scored(r.snap, r.snap[j], r.limit)[i], now)
    IN  /\ op.key \in r.wrote
        /\ op.key \in DOMAIN subrec
        /\ subrec[op.key] = op.data

\* C25: in the recompute path the summary of T is written only after every
\* sub-record of T's kept pairs was committed: a tool whose summary the run
\* has written has all its kept sub-records in storage with the run's
\* values, and when the run reaches the summary write of a tool no operation
\* is left in an uncommitted batch.
C25_SummaryAfterSubRecords ==
  R.kind = "recompute" =>
    /\ \A j \in DOMAIN R.snap :
         <<R.snap[j]["tool_id"]>> \in R.wrote => KeptCommitted(R, j)
    /\ R.pc = "summary" =>
         /\ KeptCommitted(R, R.idx)
         /\ R.committed = R.totalWrites

\* The run is about to write the summary of its second tool, two kept pairs
\* per tool committed.
C25_Witness ==
  /\ R.kind = "recompute" /\ R.pc = "summary" /\ R.idx = 2
  /\ Len(R.scored) = 2 /\ R.committed = 4
  /\ <<R.snap[1]["tool_id"]>> \in R.wrote

\* The rank score of a stored score for the popularity values the pair k has
\* in snap.
RankInSnapshot(snap, k, score) ==
  rankScoreOf(score, Popularity(snap[IndexOf(snap, k[1])]),
              Popularity(snap[IndexOf(snap, k[2])]))

\* C26: every step that writes a sub-record, from either path, leaves it
\* with a score and a rankScore, the rankScore being the rank of the stored
\* score for the popularity values of the snapshot the writing request read.
C26_ScoreAndRankTogether ==
  [][\A k \in DOMAIN subrec' :
       (k \notin DOMAIN subrec \/ subrec'[k] # subrec[k]) =>
         /\ {"score", "rank_score"} \subseteq DOMAIN subrec'[k]
         /\ subrec'[k]["rank_score"]
              = RankInSnapshot(req[1].snap, k, subrec'[k]["score"])]_vars

\* A persisting query has overwritten a sub-record a recompute had written
\* before the registry changed: the record holds the query's pair of values.
C26_Witness ==
  /\ R.kind = "query" /\ R.pc = "done" /\ R.resp.status = 200
  /\ \E k \in R.wrote :
       /\ k \in DOMAIN R.preSub
       /\ subrec[k]["score"] # R.preSub[k]["score"]
       /\ "name" \in DOMAIN subrec[k]
       /\ subrec[k]["rank_score"] # subrec[k]["score"]

\* C28: a tool is never matched with itself: no match of a single-target
\* response has the subject's id, no sub-record has its subject as peer, and
\* the number of matches returned is min(limit, number of registry tools
\* whose id differs from the subject's).
C28_NoSelfMatch ==
  /\ \A k \in DOMAIN subrec : k[1] # k[2]
  /\ (R.kind = "query" /\ R.pc = "done" /\ R.resp.status = 200) =>
       /\ \A i \in DOMAIN R.resp.matches : R.resp.matches[i].tool_id # R.toolId
       /\ R.limit.k = "num"
       /\ 2 * Len(R.resp.matches)
            = Min(R.limit.v, 2 * Cardinality(PeerIdx(R.snap, R.idx)))

\* The keys of the kept pairs of every tool of the snapshot of run r.
KeptKeys(r) ==
  UNION {{<<r.snap[j]["tool_id"], Scored(r.snap, r.snap[j], r.limit)[i].tool_id>> :
            i \in DOMAIN Scored(r.snap, r.snap[j], r.limit)} : j \in DOMAIN r.snap}

\* C29 as stated: after a successful recompute the sub-records in storage
\* are exactly the kept pairs of the run, each with the run's values.
C29_Original ==
  (RecomputeDone(R) /\ "writes" \in DOMAIN R.resp) =>
    /\ DOMAIN subrec = KeptKeys(R)
    /\ \A j \in DOMAIN R.snap : KeptCommitted(R, j)

\* C29 as amended: after a successful recompute every kept pair of every
\* tool has its sub-record with the score and rankScore of this run, and the
\* sub-records of other pairs, left by an earlier run with a larger limit, by
\* a run over another registry or by a persisting query, are still there as
\* they were.
C29_Amended ==
  (RecomputeDone(R) /\ "writes" \in DOMAIN R.resp) =>
    /\ KeptKeys(R) \subseteq DOMAIN subrec
    /\ \A j \in DOMAIN R.snap : KeptCommitted(R, j)
    /\ \A k \in (DOMAIN subrec \cup DOMAIN R.preSub) \ KeptKeys(R) :
         /\ k \in DOMAIN subrec /\ k \in DOMAIN R.preSub
         /\ subrec[k] = R.preSub[k]

\* A run with limit 1.5 has completed after a run with the default limit:
\* pairs outside its kept lists are in storage with the earlier values.
C29_Witness ==
  /\ RecomputeDone(R) /\ "writes" \in DOMAIN R.resp
  /\ Len(R.snap) = 3 /\ R.limit = Num(3) /\ R.resp.writes = 3
  /\ Cardinality(DOMAIN subrec) = 6
  /\ \E k \in DOMAIN subrec : k \notin R.wrote /\ subrec[k] = R.preSub[k]

(***************************************************************************)
(* CompatibilityEngine (src/unnamed/part_016)                              *)
(*                                                                         *)
(* The engine's numbers are rationals whose denominators divide 60 on the  *)
(* inputs below; they are kept exactly, as integers in sixtieths of a      *)
(* point.                                                                  *)
(***************************************************************************)
EngineScale == 3 * 4 * 5

SetOf(list) == {list[i] : i \in DOMAIN list}

\* (t.f || [])
ListField(t, f) == IF f \in DOMAIN t THEN t[f] ELSE <<>>

\* .map((x) => x.toLowerCase())
LowerAll(list) == [i \in DOMAIN list |-> toLowerCase(list[i])]

\* String.prototype.includes on the strings of the model: the proper
\* substring relations among them, and every string includes itself.
SubstringPairs ==
  { <<"github actions", "github">>, <<"debugging", "debug">>, <<"ui kit", "ui">> }

includes(s, sub) == s = sub \/ <<s, sub>> \in SubstringPairs

\* (inter / base) * points
RatioPoints(inter, base, points) == (inter * points * EngineScale) \div base

calculateCategoryCompatibility(a, b) ==
  IF "categoryId" \in DOMAIN a /\ "categoryId" \in DOMAIN b /\ a.categoryId = b.categoryId
  THEN 30 * EngineScale
  ELSE 10 * EngineScale

SetCompatibility(A, B, points) ==
  IF A = {} \/ B = {} THEN 0
  ELSE RatioPoints(Cardinality(A \cap B), Max(Cardinality(A), Cardinality(B)), points)

calculateFrameworkCompatibility(a, b) ==
  SetCompatibility(SetOf(ListField(a, "frameworks")), SetOf(ListField(b, "frameworks")), 40)

calculateLanguageCompatibility(a, b) ==
  SetCompatibility(SetOf(ListField(a, "languages")), SetOf(ListField(b, "languages")), 30)

IntegrationPoints(A, B, aName, bName) ==
  IF Len(A) = 0 \/ Len(B) = 0 THEN 0
  ELSE IF \/ \E i \in DOMAIN A : includes(A[i], bName)
          \/ \E i \in DOMAIN B : includes(B[i], aName)
       THEN 50 * EngineScale
       ELSE RatioPoints(Cardinality({i \in DOMAIN B : B[i] \in SetOf(A)}),
                        Max(Len(A), Len(B)), 35)

calculateIntegrationCompatibility(a, b) ==
  IntegrationPoints(LowerAll(ListField(a, "integrations")), LowerAll(ListField(b, "integrations")), toLowerCase(a.name), toLowerCase(b.name))

FeaturePairs ==
  << <<"code generation", "debug">>, <<"ui", "backend">>, <<"hosting", "database">> >>

FeaturePoints(A, B) ==
  IF Len(A) = 0 \/ Len(B) = 0 THEN 0
  ELSE Max(0,
           15 * Cardinality({p \in DOMAIN FeaturePairs :
                               /\ \E i \in DOMAIN A : includes(A[i], FeaturePairs[p][1])
                               /\ \E j \in DOMAIN B : includes(B[j], FeaturePairs[p][2])})
           - 5 * Cardinality({i \in DOMAIN A : \E j \in DOMAIN B : includes(B[j], A[i])}))
       * EngineScale

calculateFeatureCompatibility(a, b) ==
  FeaturePoints(LowerAll(ListField(a, "features")), LowerAll(ListField(b, "features")))

\* Number(t.maturityScore || 0)
MaturityOf(t) == IF "maturityScore" \in DOMAIN t THEN t.maturityScore ELSE 0

calculateMaturityAlignment(a, b) ==
  Max(0, 10 - Abs(MaturityOf(a) - MaturityOf(b))) * EngineScale

\* score = 50; score += categoryScore * 0.25; ... ; score += maturity * 0.05
EngineSum(cat, fw, lang, integ, feat, mat) ==
  50 * EngineScale + (cat * 25 + fw * 20 + lang * 15 + integ * 20 + feat * 15 + mat * 5) \div 100

\* Math.max(0, Math.min(100, score))
EngineClamp(score) == Max(0, Min(100 * EngineScale, score))

\* The local `score` after the clamp of line 47.
engineScore(a, b) ==
  EngineClamp(EngineSum(calculateCategoryCompatibility(a, b), calculateFrameworkCompatibility(a, b), calculateLanguageCompatibility(a, b), calculateIntegrationCompatibility(a, b), calculateFeatureCompatibility(a, b), calculateMaturityAlignment(a, b)))

difficultyOfStrict(score) ==
  IF score > 75 * EngineScale THEN "easy"
  ELSE IF score > 55 * EngineScale THEN "medium"
  ELSE "hard"

difficultyOf(score) ==
  IF score >= 75 * EngineScale THEN "easy"
  ELSE IF score >= 55 * EngineScale THEN "medium"
  ELSE "hard"

\* Math.round(score * 10) / 10, in tenths of a point.
RoundTenth(score) == (score * 10 + EngineScale \div 2) \div EngineScale

EngineResult(a, b, score, integ) ==
  [ toolOneId |-> a.id,
    toolTwoId |-> b.id,
    compatibilityScore |-> RoundTenth(score),
    notes |-> "Category synergy",
    verifiedIntegration |-> IF integ > 30 * EngineScale THEN 1 ELSE 0,
    integrationDifficulty |-> difficultyOf(score),
    setupSteps |-> IF integ > 0
                   THEN << <<"Configure integration for", a.name, b.name>> >>
                   ELSE <<>>,
    dependencies |-> <<>> ]

calculateCompatibility(toolA, toolB) ==
  EngineResult(toolA, toolB, engineScore(toolA, toolB), calculateIntegrationCompatibility(toolA, toolB))

\* ToolLike values: every optional field present or absent.
EngineToolsA ==
  {[id |-> "cursor", name |-> "Cursor"] @@ c @@ f @@ l @@ i @@ ft @@ m :
     c \in Opt("categoryId", {"ide", "ai"}),
     f \in Opt("frameworks", {<<"react", "vue">>}),
     l \in Opt("languages", {<<"ts">>}),
     i \in Opt("integrations", {<<"GitHub Actions", "vercel">>, <<"Vercel", "netlify">>}),
     ft \in Opt("features", {<<"Code Generation", "ui">>, <<"hosting">>}),
     m \in Opt("maturityScore", {5, 20})}

EngineToolsB ==
  {[id |-> "github", name |-> "GitHub"] @@ c @@ f @@ l @@ i @@ ft @@ m :
     c \in Opt("categoryId", {"ide"}),
     f \in Opt("frameworks", {<<"react">>, <<"react", "vue">>}),
     l \in Opt("languages", {<<"ts">>, <<"ts", "py", "go">>}),
     i \in Opt("integrations", {<<"vercel">>, <<"vercel", "Netlify">>}),
     ft \in Opt("features", {<<"debug", "ui kit">>, <<"Debugging", "database">>}),
     m \in Opt("maturityScore", {5})}

InitEngine ==
  /\ sa \in EngineToolsA
  /\ sb \in EngineToolsB
  /\ sout = "none"
  /\ spc = "call"
  /\ NormIdle
  /\ StoreIdle
  /\ BatchIdle

Calculate ==
  /\ spc = "call"
  /\ sout' = calculateCompatibility(sa, sb)
  /\ spc' = "returned"
  /\ UNCHANGED <<sa, sb>>
  /\ UNCHANGED <<normVars, storeVars, batchVars>>

NextEngine == Calculate

SpecEngine == InitEngine /\ [][NextEngine]_vars

\* C27: the engine's compatibilityScore lies between 0 and 100, and its
\* integrationDifficulty is 'easy' exactly when the clamped score is at
\* least 75, 'medium' exactly when it is at least 55 and below 75, and
\* 'hard' otherwise.
C27_BoundedScoreAndDifficulty ==
  spc = "returned" =>
    /\ 0 <= sout.compatibilityScore /\ sout.compatibilityScore <= 100 * 10
    /\ sout.compatibilityScore = RoundTenth(engineScore(sa, sb))
    /\ sout.integrationDifficulty = "easy" <=> engineScore(sa, sb) >= 75 * EngineScale
    /\ sout.integrationDifficulty = "medium" <=>
         (engineScore(sa, sb) >= 55 * EngineScale /\ engineScore(sa, sb) < 75 * EngineScale)
    /\ sout.integrationDifficulty = "hard" <=> engineScore(sa, sb) < 55 * EngineScale

C27_Witness ==
  /\ spc = "returned"
  /\ engineScore(sa, sb) = 75 * EngineScale
  /\ sout.integrationDifficulty = "easy"
  /\ sout.compatibilityScore = 750

(***************************************************************************)
(* Two recompute requests in flight at once                                *)
(*                                                                         *)
(* Each await of lines 109-146 yields to the event loop, so the steps of   *)
(* two requests interleave at the reads, the batch commits and the summary *)
(* writes.  The registry does not change while the two runs are in flight. *)
(***************************************************************************)
InitConcurrent ==
  /\ ScoreIdle
  /\ NormIdle
  /\ BatchIdle
  /\ firestoreOn = TRUE
  /\ tools \in Registries
  /\ subrec = NoFields
  /\ summary = NoFields
  /\ now = 0
  /\ req = [p \in Procs |-> IdleReq]
  /\ served = 0
  /\ lastRun = NoRun

\* An authorised request whose limit parameter is the one of the run already
\* in flight, if there is one.
ConcurrentStart(p) ==
  /\ req[p].pc = "idle"
  /\ \E l \in RawLimits :
       /\ \A q \in Procs : req[q].kind = "recompute" => req[q].rawLimit = l
       /\ RecomputeStart(p, "valid", l)

ConcurrentHandler(p) ==
  \/ ConcurrentStart(p)
  \/ \E ok \in BOOLEAN : RecomputeRead(p, ok)
  \/ \E ok \in BOOLEAN : RecomputeCommit(p, ok)
  \/ \E ok \in BOOLEAN : RecomputeSummary(p, ok)

NextConcurrent ==
  \E p \in Procs : ConcurrentHandler(p) /\ UNCHANGED <<scoreVars, normVars, batchVars>>

SpecConcurrent == InitConcurrent /\ [][NextConcurrent]_vars

\* The operations one run writes under a subject.
SubjectOps(baseId, scored) ==
  [i \in DOMAIN scored |-> RecomputeOp(baseId, scored[i], 0)]

\* Storage after one run alone over snap, from empty storage.
RECURSIVE SingleRunSub(_, _, _, _)
SingleRunSub(store, snap, limit, j) ==
  IF j > Len(snap) THEN store
  ELSE SingleRunSub(ApplyBatch(store, SubjectOps(snap[j]["tool_id"], Scored(snap, snap[j], limit))),
                    snap, limit, j + 1)

RECURSIVE SingleRunSum(_, _, _, _)
SingleRunSum(store, snap, limit, j) ==
  IF j > Len(snap) THEN store
  ELSE SingleRunSum(WriteSummary(store, snap[j]["tool_id"], Scored(snap, snap[j], limit), 0),
                    snap, limit, j + 1)

BothDone ==
  \A p \in Procs : RecomputeDone(req[p]) /\ "writes" \in DOMAIN req[p].resp

\* C30: two recompute runs with the same limit, interleaved in any way at
\* their batch commits and summary writes over an unchanged registry, leave
\* the sub-records and the summaries, timestamps aside, as one run alone
\* leaves them, and no batch of either run holds more than 450 operations.
C30_ConcurrentRunsConverge ==
  /\ \A p \in Procs : Len(req[p].batch) <= BatchCeiling /\ req[p].ops <= BatchCeiling
  /\ BothDone =>
       /\ req[1].snap = req[2].snap /\ req[1].limit = req[2].limit
       /\ StripSub(subrec) = StripSub(SingleRunSub(NoFields, req[1].snap, req[1].limit, 1))
       /\ StripSum(summary) = StripSum(SingleRunSum(NoFields, req[1].snap, req[1].limit, 1))

\* Both runs answered 200 over three tools, and a batch that the first run
\* built before the second run started was committed over the second run's
\* write of the same sub-record.
C30_Witness ==
  /\ BothDone
  /\ Len(req[1].snap) = 3 /\ req[1].resp.writes >= 3 /\ req[2].resp.writes >= 3
  /\ \E k \in DOMAIN subrec : subrec[k]["updated_at"] = 1
  /\ \E k \in DOMAIN subrec : subrec[k]["updated_at"] = 2
  /\ \E id \in DOMAIN summary : summary[id]["count_above_0_7"] >= 1

====
